---------------------------- MODULE Spec2Model ----------------------------
(***************************************************************************)
(* A model of the pinning conversion library (traits IntoPin, AsPin,       *)
(* AsPinMut).  The library is a table of trait implementations, one per    *)
(* (source shape, target pointer shape); the compiler selects the          *)
(* implementation whose source and target patterns match the request and   *)
(* rejects the request when none matches.                                  *)
(*                                                                         *)
(* A type is a sequence of constructor tokens, outermost first:            *)
(*   &mut Vec<u32>  is  <<"&mut", "Vec", "u32">>                           *)
(*   Pin<&[u8]>     is  <<"Pin", "&", "[]", "u8">>                         *)
(* A pattern ending in the token "T" binds T to the rest of the type.      *)
(***************************************************************************)
EXTENDS Integers, Sequences, FiniteSets, TLC

(***************************************************************************)
(* Bounds of the model.                                                    *)
(***************************************************************************)
MaxDepth == 4

MaxAddr == 2

MaxVal == 1

(***************************************************************************)
(* Type algebra.                                                           *)
(***************************************************************************)
\* Pointer-like constructors whose Unpin impl does not depend on the pointee.
PointerTokens == {"&", "&mut", "Box", "Rc", "Arc", "Ref", "RefMut"}

\* Constructors through which the pointee is reached without exclusive access.
SharedTokens == {"&", "Rc", "Arc", "Ref"}

\* Dynamically sized leaves and constructors.
UnsizedTokens == {"[]", "str", "Path", "OsStr"}

\* "Opaque" stands for a type that is !Unpin (it manages address-sensitive state).
LeafTokens == {"u8", "u32", "Opaque", "str", "String", "Path", "PathBuf", "OsStr", "OsString"}

\* impl_array! invoked with a list that stops at 31.
ArrayLensShort == 0 .. 31

\* The length-N array constructors [T; N] of impl_array!, N = 0..32, and one
\* length outside the macro's list.
ArrayLens == 0 .. 32

ArrayToken == << "[;0]", "[;1]", "[;2]", "[;3]", "[;4]", "[;5]", "[;6]", "[;7]", "[;8]",
      "[;9]", "[;10]", "[;11]", "[;12]", "[;13]", "[;14]", "[;15]", "[;16]", "[;17]",
      "[;18]", "[;19]", "[;20]", "[;21]", "[;22]", "[;23]", "[;24]", "[;25]", "[;26]",
      "[;27]", "[;28]", "[;29]", "[;30]", "[;31]", "[;32]", "[;33]" >>

ArrTok(n) == ArrayToken[n + 1]

IsSized(ty) == ty # << >> /\ Head(ty) \notin UnsizedTokens

RECURSIVE IsUnpin(_)
IsUnpin(ty) ==
    IF ty = << >> THEN TRUE
    ELSE IF Head(ty) \in PointerTokens THEN TRUE
    ELSE IF Head(ty) = "Opaque" THEN FALSE
    ELSE IsUnpin(Tail(ty))

\* TRUE when some layer of the type is reached through shared access.
HasShared(ty) == \E i \in 1 .. Len(ty) : ty[i] \in SharedTokens

Prefix(s, n) == SubSeq(s, 1, n)

Suffix(s, n) == SubSeq(s, n, Len(s))

(***************************************************************************)
(* The rule table: one record per impl of IntoPin.                         *)
(*   src, tgt : patterns (tgt is the P of the returned Pin<P>)             *)
(*   op       : what the body does                                         *)
(*   unpin    : the bound T: Unpin on the pattern variable                 *)
(*   sized    : TRUE when the variable is not declared ?Sized              *)
(***************************************************************************)
R(line, src, tgt, op, unpin, sized) ==
    [line |-> line, src |-> src, tgt |-> tgt, op |-> op, unpin |-> unpin, sized |-> sized]

\* PinRules with the impl of line 106 returning Pin<&mut T> from &Pin<&mut T>.
PinRulesWidening ==
    { R(60,  <<"Pin", "T">>,               <<"T">>,          "id",       TRUE, TRUE),
      R(67,  <<"Pin", "&mut", "T">>,       <<"&", "T">>,     "into_ref", TRUE, FALSE),
      R(74,  <<"&", "Pin", "&", "T">>,     <<"&", "T">>,     "reborrow", TRUE, FALSE),
      R(82,  <<"&mut", "Pin", "&", "T">>,  <<"&", "T">>,     "reborrow", TRUE, FALSE),
      R(90,  <<"&mut", "Pin", "&mut", "T">>, <<"&mut", "T">>, "reborrow", TRUE, FALSE),
      R(98,  <<"&mut", "Pin", "&mut", "T">>, <<"&", "T">>,   "reborrow", TRUE, FALSE),
      R(106, <<"&", "Pin", "&mut", "T">>,  <<"&mut", "T">>,  "reborrow", TRUE, FALSE) }

\* PinRules with the impl of line 82 pinning the reference to the pin itself
\* (Pin<&Pin<&T>>) instead of reborrowing its pointee.
PinRulesNoReborrow ==
    { R(60,  <<"Pin", "T">>,               <<"T">>,          "id",       TRUE, TRUE),
      R(67,  <<"Pin", "&mut", "T">>,       <<"&", "T">>,     "into_ref", TRUE, FALSE),
      R(74,  <<"&", "Pin", "&", "T">>,     <<"&", "T">>,     "reborrow", TRUE, FALSE),
      R(82,  <<"&mut", "Pin", "&", "T">>,  <<"&", "Pin", "&", "T">>, "reborrow", TRUE, FALSE),
      R(90,  <<"&mut", "Pin", "&mut", "T">>, <<"&mut", "T">>, "reborrow", TRUE, FALSE),
      R(98,  <<"&mut", "Pin", "&mut", "T">>, <<"&", "T">>,   "reborrow", TRUE, FALSE),
      R(106, <<"&", "Pin", "&mut", "T">>,  <<"&", "T">>,     "reborrow", TRUE, FALSE) }

PinRules ==
    { R(60,  <<"Pin", "T">>,               <<"T">>,          "id",       TRUE, TRUE),
      R(67,  <<"Pin", "&mut", "T">>,       <<"&", "T">>,     "into_ref", TRUE, FALSE),
      R(74,  <<"&", "Pin", "&", "T">>,     <<"&", "T">>,     "reborrow", TRUE, FALSE),
      R(82,  <<"&mut", "Pin", "&", "T">>,  <<"&", "T">>,     "reborrow", TRUE, FALSE),
      R(90,  <<"&mut", "Pin", "&mut", "T">>, <<"&mut", "T">>, "reborrow", TRUE, FALSE),
      R(98,  <<"&mut", "Pin", "&mut", "T">>, <<"&", "T">>,   "reborrow", TRUE, FALSE),
      R(106, <<"&", "Pin", "&mut", "T">>,  <<"&", "T">>,     "reborrow", TRUE, FALSE) }

\* GenericRules with the bound T: Unpin missing on the impl of line 132.
GenericRulesUnbounded ==
    { R(118, <<"&", "T">>,    <<"&", "T">>,    "wrap", TRUE, FALSE),
      R(125, <<"&mut", "T">>, <<"&", "T">>,    "wrap", TRUE, FALSE),
      R(132, <<"&mut", "T">>, <<"&mut", "T">>, "wrap", FALSE, FALSE) }

GenericRules ==
    { R(118, <<"&", "T">>,    <<"&", "T">>,    "wrap", TRUE, FALSE),
      R(125, <<"&mut", "T">>, <<"&", "T">>,    "wrap", TRUE, FALSE),
      R(132, <<"&mut", "T">>, <<"&mut", "T">>, "wrap", TRUE, FALSE) }

ValueRules ==
    { R(144, <<"T">>, <<"Box", "T">>, "box_pin", FALSE, TRUE),
      R(151, <<"T">>, <<"Arc", "T">>, "arc_pin", FALSE, TRUE),
      R(158, <<"T">>, <<"Rc", "T">>,  "rc_pin",  FALSE, TRUE) }

VecRules ==
    { R(170, <<"Vec", "T">>,         <<"Vec", "T">>,       "move",              TRUE, TRUE),
      R(177, <<"Vec", "T">>,         <<"Box", "[]", "T">>, "into_boxed_slice",  TRUE, TRUE),
      R(184, <<"&", "Vec", "T">>,    <<"&", "[]", "T">>,   "deref",             TRUE, TRUE),
      R(191, <<"&mut", "Vec", "T">>, <<"&", "[]", "T">>,   "deref",             TRUE, TRUE),
      R(198, <<"&mut", "Vec", "T">>, <<"&mut", "[]", "T">>, "deref",            TRUE, TRUE) }

StringRules ==
    { R(210, <<"String">>,         <<"String">>,        "move",           FALSE, FALSE),
      R(217, <<"String">>,         <<"Box", "str">>,    "into_boxed_str", FALSE, FALSE),
      R(224, <<"String">>,         <<"Vec", "u8">>,     "into_bytes",     FALSE, FALSE),
      R(231, <<"&", "String">>,    <<"&", "str">>,      "deref",          FALSE, FALSE),
      R(238, <<"&mut", "String">>, <<"&", "str">>,      "deref",          FALSE, FALSE),
      R(245, <<"&mut", "String">>, <<"&mut", "str">>,   "deref",          FALSE, FALSE),
      R(252, <<"&", "String">>,    <<"&", "[]", "u8">>, "as_bytes",       FALSE, FALSE) }

StrRules ==
    { R(264, <<"&", "str">>,    <<"&", "[]", "u8">>, "as_bytes", FALSE, FALSE),
      R(270, <<"&mut", "str">>, <<"&", "[]", "u8">>, "as_bytes", FALSE, FALSE),
      R(276, <<"&", "str">>,    <<"&", "OsStr">>,    "as_ref",   FALSE, FALSE),
      R(282, <<"&mut", "str">>, <<"&", "OsStr">>,    "as_ref",   FALSE, FALSE),
      R(288, <<"&", "str">>,    <<"&", "Path">>,     "as_ref",   FALSE, FALSE),
      R(294, <<"&mut", "str">>, <<"&", "Path">>,     "as_ref",   FALSE, FALSE) }

PathRules ==
    { R(305, <<"PathBuf">>,         <<"PathBuf">>,      "move",            FALSE, FALSE),
      R(312, <<"PathBuf">>,         <<"Box", "Path">>,  "into_boxed_path", FALSE, FALSE),
      R(319, <<"PathBuf">>,         <<"OsString">>,     "into_os_string",  FALSE, FALSE),
      R(326, <<"&", "PathBuf">>,    <<"&", "Path">>,    "deref",           FALSE, FALSE),
      R(333, <<"&mut", "PathBuf">>, <<"&", "Path">>,    "deref",           FALSE, FALSE),
      R(340, <<"&", "PathBuf">>,    <<"&", "OsStr">>,   "as_ref",          FALSE, FALSE),
      R(347, <<"&mut", "PathBuf">>, <<"&", "OsStr">>,   "as_ref",          FALSE, FALSE),
      R(359, <<"&", "Path">>,       <<"&", "OsStr">>,   "as_ref",          FALSE, FALSE),
      R(366, <<"&mut", "Path">>,    <<"&", "OsStr">>,   "as_ref",          FALSE, FALSE) }

OsStringRules ==
    { R(378, <<"OsString">>,         <<"OsString">>,      "move",              FALSE, FALSE),
      R(385, <<"OsString">>,         <<"Box", "OsStr">>,  "into_boxed_os_str", FALSE, FALSE),
      R(393, <<"OsString">>,         <<"PathBuf">>,       "into_path_buf",     FALSE, FALSE),
      R(400, <<"&", "OsString">>,    <<"&", "OsStr">>,    "deref",             FALSE, FALSE),
      R(407, <<"&mut", "OsString">>, <<"&", "OsStr">>,    "deref",             FALSE, FALSE),
      R(414, <<"&", "OsString">>,    <<"&", "Path">>,     "as_ref",            FALSE, FALSE),
      R(421, <<"&mut", "OsString">>, <<"&", "Path">>,     "as_ref",            FALSE, FALSE),
      R(433, <<"&", "OsStr">>,       <<"&", "Path">>,     "as_ref",            FALSE, FALSE) }

BoxRules ==
    { R(445, <<"Box", "T">>,         <<"Box", "T">>,       "move",             FALSE, FALSE),
      R(452, <<"&", "Box", "T">>,    <<"&", "T">>,         "deref",            TRUE,  FALSE),
      R(459, <<"&mut", "Box", "T">>, <<"&", "T">>,         "deref",            TRUE,  FALSE),
      R(466, <<"&mut", "Box", "T">>, <<"&mut", "T">>,      "deref",            TRUE,  FALSE),
      R(473, <<"Box", "str">>,       <<"Box", "[]", "u8">>, "into_boxed_bytes", FALSE, FALSE),
      R(480, <<"Box", "[]", "T">>,   <<"Vec", "T">>,       "into_vec",         TRUE,  TRUE),
      R(487, <<"Box", "OsStr">>,     <<"OsString">>,       "into_os_string",   FALSE, FALSE),
      R(494, <<"Box", "Path">>,      <<"PathBuf">>,        "into_path_buf",    FALSE, FALSE) }

CowRules ==
    { R(507, <<"Cow", "T">>,           <<"Cow", "T">>,       "move",      TRUE,  FALSE),
      R(514, <<"&", "Cow", "T">>,      <<"&", "T">>,         "deref",     TRUE,  FALSE),
      R(521, <<"&mut", "Cow", "T">>,   <<"&", "T">>,         "deref",     TRUE,  FALSE),
      R(528, <<"Cow", "str">>,         <<"Cow", "[]", "u8">>, "cow_bytes", FALSE, FALSE),
      R(538, <<"&", "Cow", "str">>,    <<"&", "[]", "u8">>,  "as_bytes",  FALSE, FALSE),
      R(546, <<"&mut", "Cow", "str">>, <<"&", "[]", "u8">>,  "as_bytes",  FALSE, FALSE) }

\* ArcRules with the impl of line 566 handing out the payload of a possibly
\* shared Arc as Pin<&mut T>.
ArcRulesExclusive ==
    { R(559, <<"Arc", "T">>,                 <<"Arc", "T">>,  "move",  TRUE, FALSE),
      R(566, <<"&mut", "Arc", "T">>,         <<"&mut", "T">>, "deref", TRUE, FALSE),
      R(573, <<"&", "Arc", "T">>,            <<"&", "T">>,    "deref", TRUE, FALSE),
      R(580, <<"&", "Arc", "&", "T">>,       <<"&", "T">>,    "deref", TRUE, FALSE),
      R(587, <<"&", "Arc", "&mut", "T">>,    <<"&", "T">>,    "deref", TRUE, FALSE),
      R(594, <<"&mut", "Arc", "&mut", "T">>, <<"&", "T">>,    "deref", TRUE, FALSE) }

ArcRules ==
    { R(559, <<"Arc", "T">>,                 <<"Arc", "T">>, "move",  TRUE, FALSE),
      R(566, <<"&mut", "Arc", "T">>,         <<"&", "T">>,   "deref", TRUE, FALSE),
      R(573, <<"&", "Arc", "T">>,            <<"&", "T">>,   "deref", TRUE, FALSE),
      R(580, <<"&", "Arc", "&", "T">>,       <<"&", "T">>,   "deref", TRUE, FALSE),
      R(587, <<"&", "Arc", "&mut", "T">>,    <<"&", "T">>,   "deref", TRUE, FALSE),
      R(594, <<"&mut", "Arc", "&mut", "T">>, <<"&", "T">>,   "deref", TRUE, FALSE) }

\* RcRules with the impl of line 613 handing out the payload of a possibly
\* shared Rc as Pin<&mut T>.
RcRulesExclusive ==
    { R(606, <<"Rc", "T">>,              <<"Rc", "T">>,   "move",  TRUE, FALSE),
      R(613, <<"&mut", "Rc", "T">>,      <<"&mut", "T">>, "deref", TRUE, FALSE),
      R(620, <<"&", "Rc", "T">>,         <<"&", "T">>,    "deref", TRUE, FALSE),
      R(627, <<"Rc", "&", "T">>,         <<"&", "T">>,    "deref", TRUE, FALSE),
      R(634, <<"&", "Rc", "&", "T">>,    <<"&", "T">>,    "deref", TRUE, FALSE),
      R(641, <<"&mut", "Rc", "&", "T">>, <<"&", "T">>,    "deref", TRUE, FALSE) }

RcRules ==
    { R(606, <<"Rc", "T">>,              <<"Rc", "T">>, "move",  TRUE, FALSE),
      R(613, <<"&mut", "Rc", "T">>,      <<"&", "T">>,  "deref", TRUE, FALSE),
      R(620, <<"&", "Rc", "T">>,         <<"&", "T">>,  "deref", TRUE, FALSE),
      R(627, <<"Rc", "&", "T">>,         <<"&", "T">>,  "deref", TRUE, FALSE),
      R(634, <<"&", "Rc", "&", "T">>,    <<"&", "T">>,  "deref", TRUE, FALSE),
      R(641, <<"&mut", "Rc", "&", "T">>, <<"&", "T">>,  "deref", TRUE, FALSE) }

\* RefRules with the impl of line 653 returning a pin of the payload only: the
\* guard ends inside into_pin, before the pin does.
RefRulesReleasing ==
    { R(653, <<"Ref", "T">>,         <<"&", "T">>,   "deref", TRUE, FALSE),
      R(660, <<"&", "Ref", "T">>,    <<"&", "T">>,   "deref", TRUE, FALSE),
      R(667, <<"&mut", "Ref", "T">>, <<"&", "T">>,   "deref", TRUE, FALSE) }

RefRules ==
    { R(653, <<"Ref", "T">>,         <<"Ref", "T">>, "move",  TRUE, FALSE),
      R(660, <<"&", "Ref", "T">>,    <<"&", "T">>,   "deref", TRUE, FALSE),
      R(667, <<"&mut", "Ref", "T">>, <<"&", "T">>,   "deref", TRUE, FALSE) }

\* CellRules with the mutable pin of the content handed out from a shared
\* reference to the cell.
CellRulesShared ==
    { R(712, <<"&mut", "Cell", "T">>,         <<"&", "T">>,    "get_mut", TRUE, TRUE),
      R(718, <<"&", "Cell", "T">>,            <<"&mut", "T">>, "get_mut", TRUE, TRUE),
      R(724, <<"&mut", "Cell", "&", "T">>,    <<"&", "T">>,    "get_mut", TRUE, TRUE),
      R(730, <<"&mut", "Cell", "&mut", "T">>, <<"&mut", "T">>, "get_mut", TRUE, TRUE) }

RefMutRules ==
    { R(679, <<"RefMut", "T">>,         <<"RefMut", "T">>, "move",  TRUE, FALSE),
      R(686, <<"&", "RefMut", "T">>,    <<"&", "T">>,      "deref", TRUE, FALSE),
      R(693, <<"&mut", "RefMut", "T">>, <<"&", "T">>,      "deref", TRUE, FALSE),
      R(700, <<"&mut", "RefMut", "T">>, <<"&mut", "T">>,   "deref", TRUE, FALSE) }

CellRules ==
    { R(712, <<"&mut", "Cell", "T">>,         <<"&", "T">>,    "get_mut", TRUE, TRUE),
      R(718, <<"&mut", "Cell", "T">>,         <<"&mut", "T">>, "get_mut", TRUE, TRUE),
      R(724, <<"&mut", "Cell", "&", "T">>,    <<"&", "T">>,    "get_mut", TRUE, TRUE),
      R(730, <<"&mut", "Cell", "&mut", "T">>, <<"&mut", "T">>, "get_mut", TRUE, TRUE) }

\* impl_array!(0, 1, ..., 32): three impls per listed length.  The pattern token
\* "[;N]" stands for the array constructor of any length the macro lists.
ArrayRules ==
    { R(754, <<"&", "[;N]", "T">>,    <<"&", "[]", "T">>,    "wrap", TRUE, TRUE),
      R(761, <<"&mut", "[;N]", "T">>, <<"&", "[]", "T">>,    "wrap", TRUE, TRUE),
      R(768, <<"&mut", "[;N]", "T">>, <<"&mut", "[]", "T">>, "wrap", TRUE, TRUE) }

ListedArrayTokens == { ArrTok(n) : n \in ArrayLens }

Rules ==
    PinRules \cup GenericRules \cup ValueRules \cup VecRules \cup StringRules \cup StrRules
      \cup PathRules \cup OsStringRules \cup BoxRules \cup CowRules \cup ArcRules
      \cup RcRules \cup RefRules \cup RefMutRules \cup CellRules \cup ArrayRules


(***************************************************************************)
(* Static dispatch: the impl selected for source type s and target t.      *)
(***************************************************************************)
HasVar(pat) == pat[Len(pat)] = "T"

\* The part of type s that pattern pat binds to its variable.
Binding(pat, s) == Suffix(s, Len(pat))

TokMatch(p, tok) == IF p = "[;N]" THEN tok \in ListedArrayTokens ELSE p = tok

Matches(r, s) ==
    IF HasVar(r.src)
    THEN /\ Len(s) >= Len(r.src)
         /\ \A i \in 1 .. Len(r.src) - 1 : TokMatch(r.src[i], s[i])
         /\ r.sized => IsSized(Binding(r.src, s))
         /\ r.unpin => IsUnpin(Binding(r.src, s))
    ELSE s = r.src

\* The P of the Pin<P> that rule r returns for a source of type s.
Output(r, s) ==
    IF HasVar(r.src)
    THEN Prefix(r.tgt, Len(r.tgt) - 1) \o Binding(r.src, s)
    ELSE r.tgt

\* Every token a type may start with.
HeadTokens ==
    PointerTokens \cup LeafTokens \cup {"Pin", "Vec", "Cow", "Cell", "[]"}
      \cup { ArrayToken[i] : i \in 1 .. Len(ArrayToken) }

\* The impls whose source pattern can match a type starting with token h.
RuleIndex == [h \in HeadTokens |-> { r \in Rules : r.src[1] = "T" \/ TokMatch(r.src[1], h) }]

Candidates(s) == { r \in RuleIndex[Head(s)] : Matches(r, s) }

\* Resolve falling back, when no impl has the pair, on any impl for the source.
ResolveBestEffort(s, t) ==
    IF { r \in Candidates(s) : Output(r, s) = t /\ IsUnpin(t) } # {}
    THEN { r \in Candidates(s) : Output(r, s) = t /\ IsUnpin(t) }
    ELSE Candidates(s)

\* IntoPin<T: Unpin>: the target pointer type itself must be Unpin.
Resolve(s, t) == { r \in Candidates(s) : Output(r, s) = t /\ IsUnpin(t) }

Listed(s, t) == Resolve(s, t) # {}

(***************************************************************************)
(* The traits AsPin<P> and AsPinMut<P>: as_pin(&self) -> Pin<&P> and       *)
(* as_pin_mut(&mut self) -> Pin<&mut P>.  src is the Self type, tgt is P.  *)
(***************************************************************************)
\* AsPinRules without the impl that pins a Box's pointee.
AsPinRulesBoxOnly ==
    { R(38, <<"[]", "T">>,  <<"[]", "T">>,  "wrap",  TRUE, TRUE),
      R(55, <<"Box", "T">>, <<"Box", "T">>, "wrap",  TRUE, TRUE),
      R(66, <<"Vec", "T">>, <<"[]", "T">>,  "deref", TRUE, TRUE),
      R(73, <<"Vec", "T">>, <<"Vec", "T">>, "wrap",  TRUE, TRUE) }

AsPinRules ==
    { R(38, <<"[]", "T">>,  <<"[]", "T">>,  "wrap",  TRUE, TRUE),
      R(48, <<"Box", "T">>, <<"T">>,        "deref", TRUE, TRUE),
      R(55, <<"Box", "T">>, <<"Box", "T">>, "wrap",  TRUE, TRUE),
      R(66, <<"Vec", "T">>, <<"[]", "T">>,  "deref", TRUE, TRUE),
      R(73, <<"Vec", "T">>, <<"Vec", "T">>, "wrap",  TRUE, TRUE) }

AsPinMutRules ==
    { R(108, <<"[]", "T">>,  <<"[]", "T">>,  "wrap",  TRUE, TRUE),
      R(118, <<"Box", "T">>, <<"T">>,        "deref", TRUE, TRUE),
      R(125, <<"Box", "T">>, <<"Box", "T">>, "wrap",  TRUE, TRUE),
      R(136, <<"Vec", "T">>, <<"[]", "T">>,  "deref", TRUE, TRUE),
      R(143, <<"Vec", "T">>, <<"Vec", "T">>, "wrap",  TRUE, TRUE) }

\* The forwarding impls: AsPin<U> for &T and &mut T (lines 21, 28), AsPinMut<U>
\* for &mut T (line 98); T and U are Sized there.
AsPinForward == {"&", "&mut"}

AsPinMutForward == {"&mut"}

RECURSIVE AsResolve(_, _, _, _)
AsResolve(rules, fwd, self, p) ==
    IF Len(self) > 1 /\ Head(self) \in fwd
    THEN IF IsSized(p) /\ IsSized(Tail(self)) THEN AsResolve(rules, fwd, Tail(self), p) ELSE {}
    ELSE { r \in rules : Matches(r, self) /\ Output(r, self) = p }

ResolveAsPin(self, p) == AsResolve(AsPinRules, AsPinForward, self, p)

ResolveAsPinMut(self, p) == AsResolve(AsPinMutRules, AsPinMutForward, self, p)

(***************************************************************************)
(* Conversion chains.  A caller holds one handle of type ty on a payload   *)
(* stored at address addr with content val.  It may borrow the handle      *)
(* (& or &mut), ask the library to pin it as some target pointer type, and *)
(* write through a pin that gives exclusive access.  req records the last  *)
(* request with the state it was made in.                                  *)
(***************************************************************************)
VARIABLES origin, ty, addr, val, excess, allocs, req

convVars == << origin, ty, addr, val, excess, allocs, req >>

Addrs == 1 .. MaxAddr

Vals == 0 .. MaxVal

\* Owned buffers: a capacity that may exceed the length.
BufferTypes == { <<"Vec", "u32">>, <<"Vec", "u8">>, <<"String">>, <<"PathBuf">>, <<"OsString">> }

\* The shapes a caller starts from (tests.rs; the impl headers of pinned.rs).
StartTypes ==
    { <<"u32">>, <<"Opaque">>, <<"&", "u32">>, <<"&mut", "u32">>, <<"&", "Opaque">>,
      <<"&mut", "Opaque">>, <<"Box", "u32">>, <<"Box", "Opaque">>, <<"Rc", "u32">>,
      <<"Arc", "u32">>, <<"Rc", "&", "u32">>, <<"Arc", "&mut", "u32">>,
      <<"Pin", "&", "u32">>, <<"Pin", "&mut", "u32">>, <<"&", "Pin", "&mut", "u32">>,
      <<"Vec", "u32">>, <<"Vec", "u8">>, <<"Box", "[]", "u8">>, <<"&", "[]", "u8">>,
      <<"&mut", "[]", "u8">>, <<"String">>, <<"&", "str">>, <<"&mut", "str">>,
      <<"Box", "str">>, <<"Cow", "str">>, <<"PathBuf">>, <<"&", "Path">>, <<"Box", "Path">>,
      <<"OsString">>, <<"&", "OsStr">>, <<"Box", "OsStr">>, <<"Cell", "u32">>,
      <<"Cell", "&mut", "u32">>, <<"Ref", "u32">>, <<"RefMut", "u32">>,
      <<ArrTok(3), "u32">>, <<ArrTok(33), "u32">> }

NoReq ==
    [outcome |-> "none", via |-> "none", src |-> << >>, tgt |-> << >>, line |-> 0,
     op |-> "none", addr0 |-> 0, val0 |-> 0, allocs0 |-> 0, excess0 |-> FALSE]

Request(outcome, via, t, line, op) ==
    [outcome |-> outcome, via |-> via, src |-> ty, tgt |-> t, line |-> line, op |-> op,
     addr0 |-> addr, val0 |-> val, allocs0 |-> allocs, excess0 |-> excess]

ConvInit ==
    /\ origin \in StartTypes
    /\ ty = origin
    /\ addr = 1
    /\ val = MaxVal
    /\ excess \in (IF origin \in BufferTypes THEN BOOLEAN ELSE {FALSE})
    /\ allocs = 0
    /\ req = NoReq

\* Targets a caller may ask for: every target some rule yields for the source,
\* and targets no rule yields (a widening to &mut, text from the payload).
Wanted(s) ==
    { Output(r, s) : r \in Candidates(s) }
      \cup { <<"&mut">> \o Suffix(s, k) : k \in {2, Len(s)} \cap (1 .. Len(s)) }
      \cup { <<"&", "str">>, <<"String">> }

\* Operations that allocate a new heap cell and move the source into it.
AllocOps == {"box_pin", "arc_pin", "rc_pin"}

\* Operations that shrink an owned buffer to its exact length (shrink_to_fit, then
\* the buffer becomes the boxed slice).
ShrinkOps == {"into_boxed_slice", "into_boxed_str", "into_boxed_path", "into_boxed_os_str"}

\* A type that stores its payload in place: moving the value moves the payload.
InlineTokens == {"u8", "u32", "Opaque", "Cell"} \cup { ArrayToken[i] : i \in 1 .. Len(ArrayToken) }

Inline(s) == \A i \in 1 .. Len(s) : s[i] \in InlineTokens

\* OpAddrs with the relabelling conversions copying the buffer (to_vec, to_owned)
\* instead of reusing it.
OpAddrsCopying(op, s, a, ex) ==
    IF op \in AllocOps /\ Inline(s) THEN Addrs \ {a}
    ELSE IF op \in ShrinkOps /\ ex THEN Addrs
    ELSE IF op \in {"into_bytes", "into_path_buf", "into_os_string"} THEN Addrs \ {a}
    ELSE {a}

\* OpAddrs with a dereference cloning the payload into a new cell.
OpAddrsCloning(op, s, a, ex) ==
    IF op \in AllocOps /\ Inline(s) THEN Addrs \ {a}
    ELSE IF op \in ShrinkOps /\ ex THEN Addrs
    ELSE IF op = "deref" THEN Addrs \ {a}
    ELSE {a}

\* OpAddrs with a conversion from an exclusive reference handing out a private
\* copy of the storage.
OpAddrsDetaching(op, s, a, ex) ==
    IF op \in AllocOps /\ Inline(s) THEN Addrs \ {a}
    ELSE IF op \in ShrinkOps /\ ex THEN Addrs
    ELSE IF Head(s) = "&mut" THEN Addrs \ {a}
    ELSE {a}

\* The addresses the payload may have after op on a source of type s: a new cell
\* when an allocating operation moves an in-place payload; the allocator's choice
\* when a shrinking operation has excess capacity to give back; the same address
\* otherwise.
OpAddrs(op, s, a, ex) ==
    IF op \in AllocOps /\ Inline(s) THEN Addrs \ {a}
    ELSE IF op \in ShrinkOps /\ ex THEN Addrs
    ELSE {a}

OpAllocs(op, ex) == IF op \in AllocOps \/ (op \in ShrinkOps /\ ex) THEN 1 ELSE 0

\* source.into_pin() with the target Pin<t> requested.
ConvInto(t) ==
    /\ Len(t) <= MaxDepth
    /\ IF Listed(ty, t)
       THEN \E r \in Resolve(ty, t) : \E a \in OpAddrs(r.op, ty, addr, excess) :
              /\ ty' = <<"Pin">> \o Output(r, ty)
              /\ addr' = a
              /\ excess' = (excess /\ r.op \notin ShrinkOps)
              /\ allocs' = allocs + OpAllocs(r.op, excess)
              /\ req' = Request("ok", "into_pin", t, r.line, r.op)
       ELSE /\ req' = Request("rejected", "into_pin", t, 0, "none")
            /\ UNCHANGED << ty, addr, excess, allocs >>
    /\ UNCHANGED << origin, val >>

ConvRequest == \E t \in Wanted(ty) : ConvInto(t)

\* The P a caller may name in as_pin / as_pin_mut.
WantedP(s) == {s} \cup (IF Len(s) > 1 THEN { Tail(s), <<"[]">> \o Suffix(s, Len(s)) } ELSE {})

\* self.as_pin() with Pin<&p> requested.
ConvAsPin ==
    \E p \in WantedP(ty) :
      /\ Len(p) + 1 <= MaxDepth
      /\ IF ResolveAsPin(ty, p) # {}
         THEN \E r \in ResolveAsPin(ty, p) :
                /\ ty' = <<"Pin", "&">> \o p
                /\ req' = Request("ok", "as_pin", <<"&">> \o p, r.line, r.op)
         ELSE /\ req' = Request("rejected", "as_pin", <<"&">> \o p, 0, "none")
              /\ UNCHANGED ty
      /\ UNCHANGED << origin, addr, val, excess, allocs >>

\* self.as_pin_mut() with Pin<&mut p> requested.
ConvAsPinMut ==
    \E p \in WantedP(ty) :
      /\ Len(p) + 1 <= MaxDepth
      /\ IF ResolveAsPinMut(ty, p) # {}
         THEN \E r \in ResolveAsPinMut(ty, p) :
                /\ ty' = <<"Pin", "&mut">> \o p
                /\ req' = Request("ok", "as_pin_mut", <<"&mut">> \o p, r.line, r.op)
         ELSE /\ req' = Request("rejected", "as_pin_mut", <<"&mut">> \o p, 0, "none")
              /\ UNCHANGED ty
      /\ UNCHANGED << origin, addr, val, excess, allocs >>

ConvBorrow ==
    /\ Len(ty) < MaxDepth
    /\ ty' = <<"&">> \o ty
    /\ req' = NoReq
    /\ UNCHANGED << origin, addr, val, excess, allocs >>

ConvBorrowMut ==
    /\ Len(ty) < MaxDepth
    /\ ty' = <<"&mut">> \o ty
    /\ req' = NoReq
    /\ UNCHANGED << origin, addr, val, excess, allocs >>

\* A pin that dereferences mutably to the payload: no shared layer on the way.
IsMutPin(t) == Len(t) > 1 /\ Head(t) = "Pin" /\ ~HasShared(t)

\* *pin = v
ConvWrite ==
    /\ IsMutPin(ty)
    /\ IsUnpin(Tail(ty))
    /\ \E v \in Vals \ {val} : val' = v
    /\ req' = NoReq
    /\ UNCHANGED << origin, ty, addr, excess, allocs >>

(***************************************************************************)
(* Owning handles.  Handles A and B of one flavour (Box, Rc or Arc) own    *)
(* payload cells.  A handle is cloned and dropped by its holder, pinned    *)
(* through the rule table, and written through a pin that gives exclusive  *)
(* access.  With Arc the handles are held by different threads; each       *)
(* action is one step of the thread holding the handle.                    *)
(***************************************************************************)
VARIABLES flavor, heap, owner, pin, hallocs, hreq

sharedVars == << flavor, heap, owner, pin, hallocs, hreq >>

Handles == {"A", "B"}

Flavors == {"Box", "Rc", "Arc"}

\* The content of a cell that holds no payload.
Free == -1

NoPin == [tgt |-> << >>, cell |-> 0, mode |-> "none"]

NoHReq ==
    [outcome |-> "none", h |-> "none", src |-> << >>, tgt |-> << >>, line |-> 0,
     op |-> "none", aliased0 |-> FALSE, owner0 |-> << >>, heap0 |-> << >>, allocs0 |-> 0]

\* Another live handle refers to the payload of handle h.
Aliased(h) == \E g \in Handles \ {h} : owner[g] # 0 /\ owner[g] = owner[h]

HRequest(outcome, h, src, t, line, op) ==
    [outcome |-> outcome, h |-> h, src |-> src, tgt |-> t, line |-> line, op |-> op,
     aliased0 |-> Aliased(h), owner0 |-> owner, heap0 |-> heap, allocs0 |-> hallocs]

SharedInit ==
    /\ flavor \in Flavors
    /\ heap = [c \in Addrs |-> IF c = 1 THEN MaxVal ELSE Free]
    /\ owner = [h \in Handles |-> IF h = "A" THEN 1 ELSE 0]
    /\ pin = [h \in Handles |-> NoPin]
    /\ hallocs = 0
    /\ hreq = NoHReq

\* g = h.clone(): Rc and Arc share the payload, Box copies it into a new cell.
HandleClone(h, g) ==
    /\ owner[h] # 0 /\ owner[g] = 0
    /\ pin[h].mode \in {"none", "&"}
    /\ IF flavor = "Box"
       THEN \E c \in Addrs :
              /\ heap[c] = Free
              /\ heap' = [heap EXCEPT ![c] = heap[owner[h]]]
              /\ owner' = [owner EXCEPT ![g] = c]
       ELSE /\ owner' = [owner EXCEPT ![g] = owner[h]]
            /\ UNCHANGED heap
    /\ hreq' = NoHReq
    /\ UNCHANGED << flavor, pin, hallocs >>

\* drop(h): the payload is freed with its last handle.
HandleDrop(h) ==
    /\ owner[h] # 0
    /\ pin[h].mode = "none"
    /\ owner' = [owner EXCEPT ![h] = 0]
    /\ heap' = IF Aliased(h) THEN heap ELSE [heap EXCEPT ![owner[h]] = Free]
    /\ hreq' = NoHReq
    /\ UNCHANGED << flavor, pin, hallocs >>

\* The type of the expression into_pin is called on: h, &h or &mut h.
HandleSource(mode) == (IF mode = "own" THEN << >> ELSE <<mode>>) \o <<flavor, "u32">>

\* Targets asked for: a pin of the payload (shared or exclusive), of the handle.
HandleWanted(src) == { <<"&", "u32">>, <<"&mut", "u32">>, src, <<"&", flavor, "u32">> }

\* h.into_pin(), (&h).into_pin() or (&mut h).into_pin() with Pin<t> requested.
HandleInto(h, mode, t) ==
    /\ owner[h] # 0
    /\ pin[h].mode = "none"
    /\ IF Listed(HandleSource(mode), t)
       THEN \E r \in Resolve(HandleSource(mode), t) :
            \E a \in OpAddrs(r.op, HandleSource(mode), owner[h], FALSE) :
              /\ pin' = [pin EXCEPT ![h] =
                           [tgt |-> Output(r, HandleSource(mode)), cell |-> a, mode |-> mode]]
              /\ heap' = IF a = owner[h] THEN heap ELSE [heap EXCEPT ![a] = heap[owner[h]]]
              /\ hallocs' = hallocs + OpAllocs(r.op, FALSE) + (IF a = owner[h] THEN 0 ELSE 1)
              /\ hreq' = HRequest("ok", h, HandleSource(mode), t, r.line, r.op)
       ELSE /\ hreq' = HRequest("rejected", h, HandleSource(mode), t, 0, "none")
            /\ UNCHANGED << heap, pin, hallocs >>
    /\ UNCHANGED << flavor, owner >>

\* The pin taken from handle h dereferences mutably to the payload.
ExclusivePinOn(h) == pin[h].mode # "none" /\ IsMutPin(<<"Pin">> \o pin[h].tgt)

\* *pin = v through the pin taken from handle h.
PinWrite(h) ==
    /\ ExclusivePinOn(h)
    /\ \E v \in Vals \ {heap[pin[h].cell]} : heap' = [heap EXCEPT ![pin[h].cell] = v]
    /\ hreq' = NoHReq
    /\ UNCHANGED << flavor, owner, pin, hallocs >>

\* The pin taken from handle h goes out of scope.
PinRelease(h) ==
    /\ pin[h].mode # "none"
    /\ pin' = [pin EXCEPT ![h] = NoPin]
    /\ hreq' = NoHReq
    /\ UNCHANGED << flavor, heap, owner, hallocs >>

(***************************************************************************)
(* Guards of an interior-mutable cell.  The cell's borrow flag counts the  *)
(* outstanding Ref guards (flag > 0) or marks the one RefMut guard         *)
(* (flag = -1).  A holder acquires a guard, pins it through the rule       *)
(* table (by value, or through a reference to it), writes through a pin    *)
(* that gives exclusive access, and lets go of what it holds.              *)
(***************************************************************************)
VARIABLES cellv, borrow, slot, gres, refused

guardVars == << cellv, borrow, slot, gres, refused >>

Holders == {"g1", "g2", "g3"}

GuardTokens == {"Ref", "RefMut"}

\* held: the guard or the pin that wraps it; view: a pin borrowed from held.
NoSlot == [kind |-> "none", held |-> << >>, view |-> << >>]

NoGRes ==
    [op |-> "none", outcome |-> "none", g |-> "none", out0 |-> {}, cellv0 |-> 0, after |-> {}]

\* The holders that have a guard, or a pin made from one, outstanding.
Outstanding == { g \in Holders : slot[g].kind # "none" }

\* after: what was outstanding when this holder was last refused a mutable guard.
GRes(op, outcome, g) ==
    [op |-> op, outcome |-> outcome, g |-> g, out0 |-> Outstanding, cellv0 |-> cellv,
     after |-> refused[g]]

GuardInit ==
    /\ cellv = MaxVal
    /\ borrow = 0
    /\ slot = [g \in Holders |-> NoSlot]
    /\ gres = NoGRes
    /\ refused = [g \in Holders |-> {}]

\* cell.try_borrow(): fails while the cell is mutably borrowed.
CellBorrow(g) ==
    /\ slot[g].kind = "none"
    /\ IF borrow >= 0
       THEN /\ borrow' = borrow + 1
            /\ slot' = [slot EXCEPT ![g] = [kind |-> "Ref", held |-> <<"Ref", "u32">>, view |-> << >>]]
            /\ gres' = GRes("borrow", "ok", g)
            /\ refused' = [refused EXCEPT ![g] = {}]
       ELSE /\ gres' = GRes("borrow", "conflict", g)
            /\ UNCHANGED << borrow, slot, refused >>
    /\ UNCHANGED cellv

\* cell.try_borrow_mut(): fails while any guard of the cell is outstanding.
CellBorrowMut(g) ==
    /\ slot[g].kind = "none"
    /\ IF borrow = 0
       THEN /\ borrow' = -1
            /\ slot' = [slot EXCEPT ![g] = [kind |-> "RefMut", held |-> <<"RefMut", "u32">>, view |-> << >>]]
            /\ gres' = GRes("borrow_mut", "ok", g)
            /\ refused' = [refused EXCEPT ![g] = {}]
       ELSE /\ gres' = GRes("borrow_mut", "conflict", g)
            /\ refused' = [refused EXCEPT ![g] = { slot[o].held : o \in Outstanding }]
            /\ UNCHANGED << borrow, slot >>
    /\ UNCHANGED cellv

\* The type still contains the guard: the guard lives as long as the value.
GuardIn(t) == \E i \in 1 .. Len(t) : t[i] \in GuardTokens

\* The borrow flag after the guard of kind k is dropped.
Released(k, b) == IF k = "Ref" THEN b - 1 ELSE 0

GuardSource(g, mode) == (IF mode = "own" THEN << >> ELSE <<mode>>) \o slot[g].held

GuardWanted(src) == { <<"&", "u32">>, <<"&mut", "u32">>, src }

\* guard.into_pin(), (&guard).into_pin() or (&mut guard).into_pin().  By value
\* the guard moves into into_pin and lives on in the result if the result
\* contains it; by reference the pin borrows from the guard, which stays.
GuardInto(g, mode, t) ==
    /\ slot[g].kind # "none"
    /\ slot[g].view = << >>
    /\ Head(slot[g].held) # "Pin"
    /\ IF Listed(GuardSource(g, mode), t)
       THEN \E r \in Resolve(GuardSource(g, mode), t) :
              /\ IF mode = "own"
                 THEN /\ slot' = [slot EXCEPT ![g].held = <<"Pin">> \o Output(r, GuardSource(g, mode))]
                      /\ borrow' = IF GuardIn(Output(r, GuardSource(g, mode)))
                                   THEN borrow ELSE Released(slot[g].kind, borrow)
                 ELSE /\ slot' = [slot EXCEPT ![g].view = <<"Pin">> \o Output(r, GuardSource(g, mode))]
                      /\ UNCHANGED borrow
              /\ gres' = GRes("into_pin", "ok", g)
       ELSE /\ gres' = GRes("into_pin", "rejected", g)
            /\ UNCHANGED << borrow, slot >>
    /\ UNCHANGED << cellv, refused >>

\* The pin a holder can use now: the borrowed view if any, else what it holds.
ActivePin(g) == IF slot[g].view # << >> THEN slot[g].view ELSE slot[g].held

\* *pin = v
GuardWrite(g) ==
    /\ slot[g].kind # "none"
    /\ IsMutPin(ActivePin(g))
    /\ \E v \in Vals \ {cellv} : cellv' = v
    /\ gres' = NoGRes
    /\ UNCHANGED << borrow, slot, refused >>

\* End of scope: a borrowed pin ends before the guard it borrows from; dropping
\* a guard, or a pin that contains it, releases the cell.
GuardEnd(g) ==
    /\ slot[g].kind # "none"
    /\ IF slot[g].view # << >>
       THEN /\ slot' = [slot EXCEPT ![g].view = << >>]
            /\ UNCHANGED borrow
       ELSE /\ slot' = [slot EXCEPT ![g] = NoSlot]
            /\ borrow' = IF GuardIn(slot[g].held)
                         THEN Released(slot[g].kind, borrow) ELSE borrow
    /\ gres' = NoGRes
    /\ UNCHANGED << cellv, refused >>

(***************************************************************************)
(* Text as bytes.  A text value is a sequence of characters (code points); *)
(* a str or String stores it as its UTF-8 encoding in a buffer.  The       *)
(* conversions to bytes hand out that buffer.                              *)
(***************************************************************************)
VARIABLES tty, tcow, text, tmem, taddr, tout, tallocs, treq

textVars == << tty, tcow, text, tmem, taddr, tout, tallocs, treq >>

MaxLen == 2

\* 'h', 'e', 'l', 'o' (one byte each), e-acute (two bytes), the euro sign (three).
Chars == {104, 233, 8364}

Hello == <<104, 101, 108, 108, 111>>

RECURSIVE Texts(_)
Texts(n) ==
    IF n = 0 THEN { << >> }
    ELSE Texts(n - 1) \cup { Append(w, c) : w \in { x \in Texts(n - 1) : Len(x) = n - 1 }, c \in Chars }

\* char::encode_utf8
Utf8Char(c) ==
    IF c < 128 THEN <<c>>
    ELSE IF c < 2048 THEN <<192 + (c \div 64), 128 + (c % 64)>>
    ELSE <<224 + (c \div 4096), 128 + ((c \div 64) % 64), 128 + (c % 64)>>

RECURSIVE Utf8(_)
Utf8(w) == IF w = << >> THEN << >> ELSE Utf8Char(Head(w)) \o Utf8(Tail(w))

\* The shapes text comes in, with the variant of a Cow.
TextSources ==
    { [ty |-> <<"String">>, cow |-> "none"], [ty |-> <<"&", "str">>, cow |-> "none"],
      [ty |-> <<"&mut", "str">>, cow |-> "none"], [ty |-> <<"Box", "str">>, cow |-> "none"],
      [ty |-> <<"Cow", "str">>, cow |-> "Owned"], [ty |-> <<"Cow", "str">>, cow |-> "Borrowed"] }

NoTReq ==
    [outcome |-> "none", src |-> << >>, tgt |-> << >>, line |-> 0, op |-> "none",
     addr0 |-> 0, allocs0 |-> 0, mem0 |-> << >>, cow0 |-> "none"]

TRequest(outcome, t, line, op) ==
    [outcome |-> outcome, src |-> tty, tgt |-> t, line |-> line, op |-> op,
     addr0 |-> taddr, allocs0 |-> tallocs, mem0 |-> tmem, cow0 |-> tcow]

TextInit ==
    /\ text \in Texts(MaxLen) \cup {Hello}
    /\ \E x \in TextSources : tty = x.ty /\ tcow = x.cow
    /\ tmem = [a \in Addrs |-> IF a = 1 THEN Utf8(text) ELSE << >>]
    /\ taddr = 1
    /\ tout = << >>
    /\ tallocs = 0
    /\ treq = NoTReq

\* The operation a body performs; Cow<str> into Cow<[u8]> matches on the variant.
TextOp(op, variant) ==
    IF op = "cow_bytes" THEN (IF variant = "Owned" THEN "into_bytes" ELSE "as_bytes") ELSE op

\* The bytes a pin of a byte sequence exposes, given the buffer it refers to.
PinBytesTruncating(op, bytes) ==
    IF op \in {"into_bytes", "into_boxed_bytes"} /\ bytes # << >>
    THEN SubSeq(bytes, 1, Len(bytes) - 1)
    ELSE bytes

PinBytes(op, bytes) == bytes

TextWanted(s) ==
    { t \in { Output(r, s) : r \in Candidates(s) } : Len(t) <= 3 }
      \cup { <<"&mut", "[]", "u8">> }

\* source.into_pin() on a text source with Pin<t> requested.
TextInto(t) ==
    /\ Head(tty) # "Pin"
    /\ IF Listed(tty, t)
       THEN \E r \in Resolve(tty, t) :
            \E a \in OpAddrs(TextOp(r.op, tcow), tty, taddr, FALSE) :
              /\ tty' = <<"Pin">> \o Output(r, tty)
              /\ taddr' = a
              /\ tmem' = IF a = taddr THEN tmem ELSE [tmem EXCEPT ![a] = tmem[taddr]]
              /\ tallocs' = tallocs + OpAllocs(TextOp(r.op, tcow), FALSE)
                              + (IF a = taddr THEN 0 ELSE 1)
              /\ tout' = PinBytes(TextOp(r.op, tcow), tmem[taddr])
              /\ treq' = TRequest("ok", t, r.line, r.op)
       ELSE /\ treq' = TRequest("rejected", t, 0, "none")
            /\ UNCHANGED << tty, taddr, tmem, tallocs, tout >>
    /\ UNCHANGED << tcow, text >>

TextBorrow ==
    /\ Len(tty) < 3 /\ Head(tty) \notin {"Pin", "&", "&mut"}
    /\ tty' = <<"&">> \o tty
    /\ treq' = NoTReq
    /\ UNCHANGED << tcow, text, tmem, taddr, tout, tallocs >>

TextBorrowMut ==
    /\ Len(tty) < 3 /\ Head(tty) \notin {"Pin", "&", "&mut"}
    /\ tty' = <<"&mut">> \o tty
    /\ treq' = NoTReq
    /\ UNCHANGED << tcow, text, tmem, taddr, tout, tallocs >>

\* The innermost constructor of a type.
Leaf(t) == t[Len(t)]

(***************************************************************************)
(* Stored values and the pins borrowed from them.  One owner variable of   *)
(* type sty keeps its elements at address saddr of smem (a scalar is one   *)
(* element).  Pins are taken from the owner, or from another pin, by       *)
(* reference or by value; each live pin records the node it borrows from,  *)
(* whether that borrow is exclusive, its pointer type and the storage it   *)
(* views.  The borrow rules of the language decide whether a node may be   *)
(* borrowed; the impl table decides whether the conversion exists.         *)
(* shadow is the element sequence a reader expects after the writes made   *)
(* so far; sreq records the last request.                                  *)
(***************************************************************************)
VARIABLES sty, smem, saddr, scap, spins, shadow, writes, sallocs, sreq

storeVars == << sty, smem, saddr, scap, spins, shadow, writes, sallocs, sreq >>

MaxWrites == 2

\* The caller's pin variables; a pin is taken from the owner or from a pin.
Slots == {"p", "q"}

Owner == "owner"

\* vec![3, 1, 2]: neither sorted nor equal to its reverse.
VecInit == << 3, 1, 2 >>

RECURSIVE Descending(_)
Descending(n) == IF n = 0 THEN << >> ELSE << n >> \o Descending(n - 1)

\* The N of the array constructor [T; N].
ArrLen(tok) == CHOOSE n \in 0 .. Len(ArrayToken) - 1 : ArrayToken[n + 1] = tok

IsArrayToken(tok) == \E i \in 1 .. Len(ArrayToken) : ArrayToken[i] = tok

\* The values a caller owns: a scalar, a boxed scalar, a cell, a growable array
\* with or without spare capacity, a boxed slice, and arrays of both ends of the
\* range the array impls cover and of a small length.
StoreOwners ==
    { [ty |-> <<"u32">>, elems |-> << MaxVal >>, cap |-> 1],
      [ty |-> <<"Box", "u32">>, elems |-> << MaxVal >>, cap |-> 1],
      [ty |-> <<"Cell", "u32">>, elems |-> << MaxVal >>, cap |-> 1],
      [ty |-> <<"Vec", "u32">>, elems |-> VecInit, cap |-> Len(VecInit)],
      [ty |-> <<"Vec", "u32">>, elems |-> VecInit, cap |-> Len(VecInit) + 1],
      [ty |-> <<"Box", "[]", "u32">>, elems |-> VecInit, cap |-> Len(VecInit)] }
      \cup { [ty |-> << ArrTok(n), "u32" >>, elems |-> Descending(n), cap |-> n] :
               n \in {0, 2, 32} }

NoPinRec == [parent |-> Owner, excl |-> FALSE, ty |-> << >>, addr |-> 0, len |-> 0, again |-> FALSE]

NoSReq ==
    [outcome |-> "none", way |-> "none", node |-> Owner, src |-> << >>, tgt |-> << >>,
     line |-> 0, op |-> "none", slot |-> Owner, mem0 |-> << >>, addr0 |-> 0, cap0 |-> 0,
     allocs0 |-> 0, pins0 |-> << >>]

SRequest(outcome, way, p, s, t, line, op, k) ==
    [outcome |-> outcome, way |-> way, node |-> p, src |-> s, tgt |-> t,
     line |-> line, op |-> op, slot |-> k, mem0 |-> smem, addr0 |-> saddr, cap0 |-> scap,
     allocs0 |-> sallocs, pins0 |-> spins]

StoreInit ==
    /\ \E o \in StoreOwners :
         /\ sty = o.ty
         /\ smem = [a \in Addrs |-> IF a = 1 THEN o.elems ELSE << >>]
         /\ scap = o.cap
         /\ shadow = o.elems
    /\ saddr = 1
    /\ spins = [k \in Slots |-> NoPinRec]
    /\ writes = 0
    /\ sallocs = 0
    /\ sreq = NoSReq

Live(k) == spins[k] # NoPinRec

NodeLive(p) == IF p = Owner THEN TRUE ELSE Live(p)

NodeTy(p) == IF p = Owner THEN sty ELSE spins[p].ty

NodeAddr(p) == IF p = Owner THEN saddr ELSE spins[p].addr

NodeLen(p) == IF p = Owner THEN Len(smem[saddr]) ELSE spins[p].len

\* The live borrows of node p among the pins ps.
ChildrenIn(ps, p) == { k \in Slots : ps[k] # NoPinRec /\ ps[k].parent = p }

\* The borrow a call takes on the node it is made on: & for (&x).into_pin() and
\* for as_pin(&self), &mut for (&mut x).into_pin() and for as_pin_mut(&mut self).
BorrowOf(way) == IF way \in {"&", "as_pin"} THEN "&" ELSE "&mut"

\* The language's borrow rule: a shared borrow of node p conflicts with a live
\* exclusive borrow of p, an exclusive borrow or a move with any live borrow.
ConflictIn(ps, p, b) ==
    IF b = "&" THEN \E k \in ChildrenIn(ps, p) : ps[k].excl ELSE ChildrenIn(ps, p) # {}

\* ResultParent with the pin given the lifetime of the pin it was made from
\* ('long) instead of the lifetime of the borrow.
ResultParentOuter(p) == IF p = Owner THEN Owner ELSE spins[p].parent

\* The node a pin made by reference from node p is tied to.  Every by-reference
\* impl returns a pin of the borrow's own lifetime ('short, 'a), so the pin is a
\* borrow of p itself.
ResultParent(p) == p

\* The number of elements seen through a pin made from a source of type s whose
\* value has n elements: the N of the type for an array (the reference to the
\* array becomes a reference to a slice of N elements), n otherwise.
ViewLen(s, n) ==
    IF \E i \in 1 .. Len(s) : IsArrayToken(s[i])
    THEN ArrLen(s[CHOOSE j \in 1 .. Len(s) : IsArrayToken(s[j])])
    ELSE n

\* OpCap with the boxed slice keeping the Vec's spare capacity.
OpCapKeeping(op, n, cap) == cap

\* The capacity of the buffer after op: exactly the length after a shrinking
\* conversion, unchanged otherwise.
OpCap(op, n, cap) == IF op \in ShrinkOps THEN n ELSE cap

\* The storage after the elements at address a are placed at address b: moved
\* there when the owner moves, also readable there when a pin is made.
Placed(a, b, moved) ==
    IF a = b THEN smem
    ELSE [smem EXCEPT ![b] = smem[a], ![a] = IF moved THEN << >> ELSE smem[a]]

\* Targets requested in this part: the pointers to a scalar or to a sequence of
\* scalars that some impl yields for the source; from a reference to the owner
\* also the references to its scalar and to a slice of it, listed or not.
StoreWanted(p, s) ==
    { t \in { Output(r, s) : r \in Candidates(s) } : Len(t) <= 3 }
      \cup (IF p = Owner /\ Head(s) \in {"&", "&mut"}
            THEN { << b >> \o q : b \in {"&", "&mut"},
                                  q \in { << Leaf(s) >>, << "[]", Leaf(s) >> } }
            ELSE {})

\* The targets a by-reference call on node p may name.
WayWanted(way, p) ==
    IF way \in {"&", "&mut"} THEN StoreWanted(p, << way >> \o NodeTy(p))
    ELSE IF way = "as_pin" THEN { <<"&">> \o q : q \in WantedP(NodeTy(p)) }
    ELSE { <<"&mut">> \o q : q \in WantedP(NodeTy(p)) }

\* (&x).into_pin(), (&mut x).into_pin(), x.as_pin() or x.as_pin_mut() on node p
\* with the target Pin<t> requested: s is the Self type of the call, rs the impls
\* trait resolution finds for it.  The caller binds the new pin to p when p is
\* free, to q otherwise.
StoreBorrowInto(p, way, t) ==
    /\ NodeLive(p)
    /\ \E k \in Slots : ~Live(k)
    /\ way \in {"as_pin", "as_pin_mut"} => p = Owner
    /\ Len(t) <= 3
    /\ LET s == IF way \in {"&", "&mut"} THEN << way >> \o NodeTy(p) ELSE NodeTy(p)
           k == IF ~Live("p") THEN "p" ELSE "q"
           rs == IF way \in {"&", "&mut"} THEN Resolve(s, t)
                 ELSE IF way = "as_pin"
                 THEN (IF Head(t) = "&" THEN ResolveAsPin(s, Tail(t)) ELSE {})
                 ELSE (IF Head(t) = "&mut" THEN ResolveAsPinMut(s, Tail(t)) ELSE {})
       IN  IF ConflictIn(spins, p, BorrowOf(way))
           THEN /\ sreq' = SRequest("borrow_error", way, p, s, << >>, 0, "none", Owner)
                /\ UNCHANGED << smem, spins >>
           ELSE IF rs = {}
           THEN /\ sreq' = SRequest("rejected", way, p, s, t, 0, "none", Owner)
                /\ UNCHANGED << smem, spins >>
           ELSE \E r \in rs :
                  \E a \in OpAddrs(r.op, s, NodeAddr(p), FALSE) :
                    /\ spins' = [spins EXCEPT ![k] =
                                   [parent |-> ResultParent(p),
                                    excl |-> BorrowOf(way) = "&mut",
                                    ty |-> <<"Pin">> \o t,
                                    addr |-> a,
                                    len |-> ViewLen(s, NodeLen(p)),
                                    again |-> FALSE]]
                    /\ smem' = Placed(NodeAddr(p), a, FALSE)
                    /\ sreq' = SRequest("ok", way, p, s, t, r.line, r.op, k)
    /\ UNCHANGED << sty, saddr, scap, shadow, writes, sallocs >>

\* x.into_pin() on node p by value with the target Pin<t> requested: the owner
\* becomes the pin, or the pin is replaced by the new pin of the same lifetime.
StoreMoveInto(p, t) ==
    /\ NodeLive(p)
    /\ Len(t) <= 3
    /\ LET s == NodeTy(p)
           n == NodeLen(p)
           ex == p = Owner /\ scap > n
           rs == Resolve(s, t)
       IN  IF ConflictIn(spins, p, "own")
           THEN /\ sreq' = SRequest("borrow_error", "own", p, s, << >>, 0, "none", Owner)
                /\ UNCHANGED << sty, smem, saddr, scap, spins, sallocs >>
           ELSE IF rs = {}
           THEN /\ sreq' = SRequest("rejected", "own", p, s, t, 0, "none", Owner)
                /\ UNCHANGED << sty, smem, saddr, scap, spins, sallocs >>
           ELSE \E r \in rs : \E a \in OpAddrs(r.op, s, NodeAddr(p), ex) :
                  /\ sreq' = SRequest("ok", "own", p, s, t, r.line, r.op, p)
                  /\ IF p = Owner
                     THEN /\ sty' = <<"Pin">> \o t
                          /\ saddr' = a
                          /\ smem' = Placed(saddr, a, TRUE)
                          /\ scap' = OpCap(r.op, n, scap)
                          /\ sallocs' = sallocs + OpAllocs(r.op, ex)
                          /\ UNCHANGED spins
                     ELSE /\ spins' = [spins EXCEPT ![p].ty = <<"Pin">> \o t, ![p].addr = a]
                          /\ smem' = Placed(NodeAddr(p), a, FALSE)
                          /\ sallocs' = sallocs + OpAllocs(r.op, ex)
                          /\ UNCHANGED << sty, saddr, scap >>
    /\ UNCHANGED << shadow, writes >>

RECURSIVE Reversed(_)
Reversed(s) == IF s = << >> THEN << >> ELSE Append(Reversed(Tail(s)), Head(s))

\* The elements of s in ascending order: the least element, then the rest sorted.
RECURSIVE Sorted(_)
Sorted(s) ==
    IF s = << >> THEN << >>
    ELSE LET i == CHOOSE j \in 1 .. Len(s) : \A k \in 1 .. Len(s) : s[j] <= s[k]
         IN  << s[i] >> \o Sorted(SubSeq(s, 1, i - 1) \o SubSeq(s, i + 1, Len(s)))

\* The writes a caller makes through a mutable pin: pin[i] = 0 on one of the
\* first two elements (*pin = 0 on a scalar), pin.reverse(), pin.sort().
Written(w, s) ==
    IF w = "set1" THEN [s EXCEPT ![1] = 0]
    ELSE IF w = "set2" THEN [s EXCEPT ![2] = 0]
    ELSE IF w = "reverse" THEN Reversed(s)
    ELSE Sorted(s)

\* The write w exists on a pin of type t over n elements: an index in bounds,
\* a slice method on a pointee that is a sequence of elements.
CanWrite(w, t, n) ==
    IF w = "set1" THEN n >= 1
    ELSE IF w = "set2" THEN n >= 2
    ELSE \E i \in 1 .. Len(t) : t[i] \in {"[]", "Vec"} \/ IsArrayToken(t[i])

\* A write through the mutable pin in slot k, which no live pin borrows from.
StoreWrite(k, w) ==
    /\ Live(k)
    /\ IsMutPin(spins[k].ty)
    /\ ChildrenIn(spins, k) = {}
    /\ writes < MaxWrites
    /\ CanWrite(w, spins[k].ty, spins[k].len)
    /\ LET a == spins[k].addr
           n == spins[k].len
           c == smem[a]
       IN  /\ n <= Len(c)
           /\ smem' = [smem EXCEPT ![a] = Written(w, SubSeq(c, 1, n)) \o SubSeq(c, n + 1, Len(c))]
    /\ CanWrite(w, spins[k].ty, Len(shadow))
    /\ shadow' = Written(w, shadow)
    /\ writes' = writes + 1
    /\ sreq' = NoSReq
    /\ UNCHANGED << sty, saddr, scap, spins, sallocs >>

\* The pin in slot k, which no live pin borrows from, goes out of scope.
StoreEnd(k) ==
    /\ Live(k)
    /\ ChildrenIn(spins, k) = {}
    /\ spins' = [j \in Slots |->
                   IF j = k THEN NoPinRec
                   ELSE IF j = spins[k].parent THEN [spins[j] EXCEPT !.again = TRUE]
                   ELSE spins[j]]
    /\ sreq' = NoSReq
    /\ UNCHANGED << sty, smem, saddr, scap, shadow, writes, sallocs >>

(***************************************************************************)
(* Specifications.  Each one runs one part of the model and leaves the     *)
(* variables of the other parts at their initial values.                   *)
(***************************************************************************)
vars ==
    << origin, ty, addr, val, excess, allocs, req, flavor, heap, owner, pin, hallocs, hreq,
       cellv, borrow, slot, gres, refused, tty, tcow, text, tmem, taddr, tout, tallocs, treq,
       sty, smem, saddr, scap, spins, shadow, writes, sallocs, sreq >>

ConvIdle ==
    /\ origin = <<"u32">> /\ ty = <<"u32">> /\ addr = 1 /\ val = MaxVal
    /\ excess = FALSE /\ allocs = 0 /\ req = NoReq

SharedIdle ==
    /\ flavor = "Box"
    /\ heap = [c \in Addrs |-> Free]
    /\ owner = [h \in Handles |-> 0]
    /\ pin = [h \in Handles |-> NoPin]
    /\ hallocs = 0
    /\ hreq = NoHReq

GuardIdle == GuardInit

TextIdle ==
    /\ tty = <<"String">> /\ tcow = "none" /\ text = << >>
    /\ tmem = [a \in Addrs |-> << >>]
    /\ taddr = 1 /\ tout = << >> /\ tallocs = 0 /\ treq = NoTReq

StoreIdle ==
    /\ sty = <<"u32">>
    /\ smem = [a \in Addrs |-> << >>]
    /\ saddr = 1 /\ scap = 0
    /\ spins = [k \in Slots |-> NoPinRec]
    /\ shadow = << >> /\ writes = 0 /\ sallocs = 0 /\ sreq = NoSReq

ConvNext ==
    \/ ConvRequest /\ UNCHANGED << sharedVars, guardVars, textVars, storeVars >>
    \/ ConvAsPin /\ UNCHANGED << sharedVars, guardVars, textVars, storeVars >>
    \/ ConvAsPinMut /\ UNCHANGED << sharedVars, guardVars, textVars, storeVars >>
    \/ ConvBorrow /\ UNCHANGED << sharedVars, guardVars, textVars, storeVars >>
    \/ ConvBorrowMut /\ UNCHANGED << sharedVars, guardVars, textVars, storeVars >>
    \/ ConvWrite /\ UNCHANGED << sharedVars, guardVars, textVars, storeVars >>

InitConv == ConvInit /\ SharedIdle /\ GuardIdle /\ TextIdle /\ StoreIdle

SpecConv == InitConv /\ [][ConvNext]_vars

SharedNext ==
    \/ \E h \in Handles, g \in Handles :
         HandleClone(h, g) /\ UNCHANGED << convVars, guardVars, textVars, storeVars >>
    \/ \E h \in Handles : HandleDrop(h) /\ UNCHANGED << convVars, guardVars, textVars, storeVars >>
    \/ \E h \in Handles, mode \in {"own", "&", "&mut"} :
         \E t \in HandleWanted(HandleSource(mode)) :
           HandleInto(h, mode, t) /\ UNCHANGED << convVars, guardVars, textVars, storeVars >>
    \/ \E h \in Handles : PinWrite(h) /\ UNCHANGED << convVars, guardVars, textVars, storeVars >>
    \/ \E h \in Handles : PinRelease(h) /\ UNCHANGED << convVars, guardVars, textVars, storeVars >>

InitShared == SharedInit /\ ConvIdle /\ GuardIdle /\ TextIdle /\ StoreIdle

SpecShared == InitShared /\ [][SharedNext]_vars

GuardNext ==
    \/ \E g \in Holders : CellBorrow(g) /\ UNCHANGED << convVars, sharedVars, textVars, storeVars >>
    \/ \E g \in Holders : CellBorrowMut(g) /\ UNCHANGED << convVars, sharedVars, textVars, storeVars >>
    \/ \E g \in Holders, mode \in {"own", "&", "&mut"} :
         \E t \in GuardWanted(GuardSource(g, mode)) :
           GuardInto(g, mode, t) /\ UNCHANGED << convVars, sharedVars, textVars, storeVars >>
    \/ \E g \in Holders : GuardWrite(g) /\ UNCHANGED << convVars, sharedVars, textVars, storeVars >>
    \/ \E g \in Holders : GuardEnd(g) /\ UNCHANGED << convVars, sharedVars, textVars, storeVars >>

InitGuard == GuardInit /\ ConvIdle /\ SharedIdle /\ TextIdle /\ StoreIdle

SpecGuard == InitGuard /\ [][GuardNext]_vars

TextNext ==
    \/ \E t \in TextWanted(tty) : TextInto(t) /\ UNCHANGED << convVars, sharedVars, guardVars, storeVars >>
    \/ TextBorrow /\ UNCHANGED << convVars, sharedVars, guardVars, storeVars >>
    \/ TextBorrowMut /\ UNCHANGED << convVars, sharedVars, guardVars, storeVars >>

InitText == TextInit /\ ConvIdle /\ SharedIdle /\ GuardIdle /\ StoreIdle

SpecText == InitText /\ [][TextNext]_vars

StoreNext ==
    \/ \E p \in {Owner} \cup Slots, way \in {"&", "&mut", "as_pin", "as_pin_mut"} :
         /\ NodeLive(p)
         /\ \E t \in WayWanted(way, p) : StoreBorrowInto(p, way, t)
         /\ UNCHANGED << convVars, sharedVars, guardVars, textVars >>
    \/ \E p \in {Owner} \cup Slots :
         /\ NodeLive(p)
         /\ \E t \in StoreWanted(p, NodeTy(p)) : StoreMoveInto(p, t)
         /\ UNCHANGED << convVars, sharedVars, guardVars, textVars >>
    \/ \E k \in Slots, w \in {"set1", "set2", "reverse", "sort"} :
         StoreWrite(k, w) /\ UNCHANGED << convVars, sharedVars, guardVars, textVars >>
    \/ \E k \in Slots : StoreEnd(k) /\ UNCHANGED << convVars, sharedVars, guardVars, textVars >>

InitStore == StoreInit /\ ConvIdle /\ SharedIdle /\ GuardIdle /\ TextIdle

SpecStore == InitStore /\ [][StoreNext]_vars

(***************************************************************************)
(* Properties of conversion chains.                                        *)
(***************************************************************************)
\* The last request was served by the rule it names.
Served == req.outcome = "ok"

Rejected == req.outcome = "rejected"

\* Nothing but req differs from the state the request was made in.
NoEffect ==
    /\ ty = req.src
    /\ addr = req.addr0
    /\ val = req.val0
    /\ allocs = req.allocs0
    /\ excess = req.excess0

\* C6: narrowing is one-directional.  A chain that starts from an immutable
\* reference or pin (any handle with a shared layer) never holds a mutable pin of
\* the payload; a request that yields a pinned mutable reference was made on an
\* exclusive reference or on a mutable pin; and a chain that starts from bytes
\* never reaches text.
C6_NarrowingOneWay ==
    /\ HasShared(origin) => ~IsMutPin(ty)
    /\ (Served /\ Head(req.tgt) = "&mut") =>
          \/ Head(req.src) = "&mut"
          \/ (Len(req.src) > 1 /\ req.src[1] = "Pin" /\ req.src[2] = "&mut")
          \/ (req.via = "as_pin_mut" /\ ~HasShared(req.src))
    /\ Leaf(origin) = "u8" => Leaf(ty) \notin {"str", "String"}

\* C6 witness: from an immutable origin a pin was obtained, and the request to
\* widen it to a mutable pin of the payload was rejected.
C6_Witness ==
    /\ origin = <<"&", "u32">>
    /\ ty = <<"&mut", "Pin", "&", "u32">>
    /\ Rejected
    /\ req.tgt = <<"&mut", "u32">>

\* An immutable pin, by value or behind a reference.
IsImmPinSource(s) ==
    \/ (Len(s) > 2 /\ s[1] = "Pin" /\ s[2] = "&")
    \/ (Len(s) > 3 /\ s[1] \in {"&", "&mut"} /\ s[2] = "Pin" /\ s[3] = "&")

\* The pointee of the pin inside an immutable-pin source.
ImmPinPointee(s) == IF s[1] = "Pin" THEN Suffix(s, 3) ELSE Suffix(s, 4)

\* C7: narrowing is idempotent.  Pin<P> into Pin<P> is always served and returns
\* the handle it was given; narrowing an immutable pin Pin<&T> (T: Unpin) again,
\* by value or through a reference to it, is always served and yields Pin<&T> on
\* the same address with the same content, without allocating.
C7_NarrowingIdempotent ==
    /\ (req.via = "into_pin" /\ req.outcome # "none" /\ Len(req.src) > 1
          /\ Head(req.src) = "Pin" /\ req.tgt = Tail(req.src) /\ IsUnpin(req.tgt))
        => (Served /\ req.line = 60 /\ NoEffect)
    /\ (req.via = "into_pin" /\ req.outcome # "none" /\ IsImmPinSource(req.src)
          /\ req.tgt = <<"&">> \o ImmPinPointee(req.src) /\ IsUnpin(ImmPinPointee(req.src)))
        => /\ Served
           /\ ty = <<"Pin", "&">> \o ImmPinPointee(req.src)
           /\ addr = req.addr0 /\ val = req.val0 /\ allocs = req.allocs0

\* C7 witness: a pin that was already immutable (it came from narrowing a mutable
\* reference) is narrowed once more through a mutable reference to it.
C7_Witness ==
    /\ origin = <<"&mut", "u32">>
    /\ Served /\ req.line = 82
    /\ req.src = <<"&mut", "Pin", "&", "u32">>
    /\ ty = <<"Pin", "&", "u32">>

\* C8 as amended: a rule that neither allocates nor shrinks (wrap, narrow, move
\* in, relabel, among them OsString to PathBuf) leaves the payload at the
\* source's address and allocates nothing; so does a shrinking rule (String to
\* Box<str>, PathBuf to Box<Path>, OsString to Box<OsStr>, Vec<T> to Box<[T]>)
\* when the buffer has no excess capacity.
C8_AddressKept ==
    (Served /\ req.op \notin AllocOps /\ ~(req.op \in ShrinkOps /\ req.excess0))
      => (addr = req.addr0 /\ allocs = req.allocs0)

\* C8 witness: OsString into Pin<PathBuf> was served and the payload is where it was.
C8_Witness == Served /\ req.line = 393 /\ addr = req.addr0

\* C8 as stated: every rule the table lists as non-allocating, the owned text and
\* path buffer rules included, leaves the payload at the source's address.
C8_Original ==
    (Served /\ req.op \notin AllocOps \cup {"into_boxed_slice"}) => addr = req.addr0

\* The type a pin pins: the pointee of the pointer inside Pin<..>.
Pinned(t) == Suffix(t, 3)

\* A handle holding an owning pin of a !Unpin value.
HoldsOwningPin(t) ==
    \E k \in 1 .. Len(t) - 2 :
      t[k] = "Pin" /\ t[k + 1] \in {"Box", "Rc", "Arc"} /\ ~IsUnpin(Suffix(t, k + 2))

\* C9: a pin obtained through a reference pins an Unpin type; a request for
\* Pin<&mut T> on &mut T with T: !Unpin is rejected; a !Unpin value is pinned
\* only by an owning path (value into Pin<Box>, Pin<Arc>, Pin<Rc>, or Box<T>
\* into Pin<Box<T>>), and once it is, every later handle still holds that pin
\* and the value stays at its address.
C9_UnpinGate ==
    /\ (Served /\ (Head(req.src) \in {"&", "&mut"} \/ req.via \in {"as_pin", "as_pin_mut"}))
        => IsUnpin(Tail(req.tgt))
    /\ (req.outcome # "none" /\ Len(req.src) > 1 /\ Head(req.src) = "&mut"
          /\ req.tgt = req.src /\ ~IsUnpin(Tail(req.src)))
        => (Rejected /\ NoEffect)
    /\ (Len(ty) > 2 /\ Head(ty) = "Pin" /\ ~IsUnpin(Pinned(ty)))
        => /\ ty[2] \in {"Box", "Rc", "Arc"}
           /\ Served => req.line \in {144, 151, 158, 445, 60}
    /\ (Served /\ HoldsOwningPin(req.src)) => (HoldsOwningPin(ty) /\ addr = req.addr0)

\* C9 witness: a !Unpin value was pinned by moving it into a box, and a later
\* request for a mutable pinned reference to it was rejected.
C9_Witness ==
    /\ origin = <<"Opaque">>
    /\ ty = <<"&mut", "Pin", "Box", "Opaque">>
    /\ Rejected
    /\ req.tgt = <<"&mut", "Opaque">>

\* The impls of the trait that have exactly the requested source and target.
RulesForPair(via, s, t) ==
    IF via = "into_pin" THEN { r \in Rules : Matches(r, s) /\ Output(r, s) = t /\ IsUnpin(t) }
    ELSE IF via = "as_pin" THEN AsResolve(AsPinRules, AsPinForward, s, Tail(t))
    ELSE AsResolve(AsPinMutRules, AsPinMutForward, s, Tail(t))

C17_NarrowingClosed ==
    /\ (Served /\ req.via = "into_pin" /\ Head(req.tgt) = "&mut") =>
         Listed(req.src, <<"&">> \o Tail(req.tgt))
    /\ (Served /\ req.via = "as_pin_mut") =>
         ResolveAsPin(req.src, Tail(req.tgt)) # {}

(***************************************************************************)
(* Properties of owning handles.                                           *)
(***************************************************************************)
SharedFlavor == flavor \in {"Rc", "Arc"}

\* The last request asked for an exclusive mutable pin of the payload.
ExclusiveRequest == hreq.outcome # "none" /\ hreq.tgt = <<"&mut", "u32">>

\* Nothing but hreq differs from the state the request was made in.
HNoEffect ==
    /\ owner = hreq.owner0
    /\ heap = hreq.heap0
    /\ hallocs = hreq.allocs0
    /\ pin[hreq.h] = NoPin

GuardsOut(k) == { g \in Holders : slot[g].kind = k }

\* C4: the cell is borrowed exactly as long as a guard, or a pin made from it, is
\* outstanding (wrapping a guard in a pin neither releases it early nor keeps it
\* after the pin has ended); an attempt to acquire a mutable guard fails with a
\* conflict exactly when another guard or pin of the cell is outstanding, and
\* then creates no guard and no pin and leaves the content alone; with none
\* outstanding it succeeds.
C4_GuardConflict ==
    /\ borrow = IF GuardsOut("RefMut") # {} THEN -1 ELSE Cardinality(GuardsOut("Ref"))
    /\ \A g \in Outstanding : GuardIn(slot[g].held)
    /\ gres.op = "borrow_mut" =>
          /\ gres.outcome = "conflict" <=> gres.out0 # {}
          /\ gres.outcome = "conflict" => (slot[gres.g] = NoSlot /\ cellv = gres.cellv0)
          /\ gres.outcome = "ok" => slot[gres.g].kind = "RefMut"

\* C4 witness: a mutable guard was refused while a Pin<Ref> was outstanding, the
\* pin ended, and the next attempt succeeded.
C4_Witness ==
    /\ gres.op = "borrow_mut" /\ gres.outcome = "ok"
    /\ gres.after = { <<"Pin", "Ref", "u32">> }
    /\ slot[gres.g].kind = "RefMut"

(***************************************************************************)
(* Properties of text as bytes.                                            *)
(***************************************************************************)
\* str::from_utf8 on well-formed input of up to three bytes per character.
RECURSIVE Utf8Decode(_)
Utf8Decode(b) ==
    IF b = << >> THEN << >>
    ELSE IF b[1] < 128 THEN <<b[1]>> \o Utf8Decode(Tail(b))
    ELSE IF b[1] < 224 /\ Len(b) >= 2
         THEN <<(b[1] - 192) * 64 + (b[2] - 128)>> \o Utf8Decode(SubSeq(b, 3, Len(b)))
    ELSE IF b[1] >= 224 /\ Len(b) >= 3
         THEN <<(b[1] - 224) * 4096 + (b[2] - 128) * 64 + (b[3] - 128)>>
                \o Utf8Decode(SubSeq(b, 4, Len(b)))
    ELSE <<-1>>

\* char::len_utf8, summed over the text.
RECURSIVE EncodedLen(_)
EncodedLen(w) ==
    IF w = << >> THEN 0
    ELSE (IF Head(w) < 128 THEN 1 ELSE IF Head(w) < 2048 THEN 2 ELSE 3) + EncodedLen(Tail(w))

\* The byte target of each text source.
ByteTargetOf(s) ==
    IF s = <<"String">> THEN <<"Vec", "u8">>
    ELSE IF s = <<"Box", "str">> THEN <<"Box", "[]", "u8">>
    ELSE IF s = <<"Cow", "str">> THEN <<"Cow", "[]", "u8">>
    ELSE <<"&", "[]", "u8">>

TextShapes ==
    { <<"&", "str">>, <<"&mut", "str">>, <<"&", "String">>, <<"String">>, <<"Box", "str">>,
      <<"Cow", "str">>, <<"&", "Cow", "str">>, <<"&mut", "Cow", "str">> }

\* C5: every text source (&str, &mut str, &String, String, Box<str>, Cow<str>
\* and references to it) can be pinned as bytes, and the pin then exposes exactly
\* the UTF-8 encoding of the text: it decodes to the text, has the encoded
\* length, and is [104,101,108,108,111] for "hello"; the buffer is the source's
\* own, at the same address, nothing is allocated or copied, and a Cow keeps its
\* variant.
C5_TextAsBytes ==
    /\ (treq.outcome # "none" /\ treq.src \in TextShapes /\ treq.tgt = ByteTargetOf(treq.src))
          => treq.outcome = "ok"
    /\ (treq.outcome = "ok" /\ treq.src \in TextShapes /\ treq.tgt = ByteTargetOf(treq.src)) =>
          /\ Utf8Decode(tout) = text
          /\ Len(tout) = EncodedLen(text)
          /\ text = <<104, 101, 108, 108, 111>> => tout = <<104, 101, 108, 108, 111>>
          /\ taddr = treq.addr0 /\ tallocs = treq.allocs0 /\ tmem = treq.mem0
          /\ tcow = treq.cow0

\* C5 witness: a String of the euro sign and e-acute became a Pin<Vec<u8>> of
\* its five bytes, in place.
C5_Witness ==
    /\ text = <<8364, 233>>
    /\ treq.outcome = "ok" /\ treq.line = 224
    /\ tty = <<"Pin", "Vec", "u8">>
    /\ tout = <<226, 130, 172, 195, 169>>
    /\ taddr = treq.addr0

(***************************************************************************)
(* Properties of stored values and the pins borrowed from them.            *)
(***************************************************************************)
\* The elements seen through the pin in slot k.
View(k) == SubSeq(smem[spins[k].addr], 1, spins[k].len)

SServed == sreq.outcome = "ok"

\* C11: for every N in 0..=32 a shared reference to an array [T; N] converts to
\* an immutable pinned slice and an exclusive reference converts to an immutable
\* and to a mutable pinned slice; the slice has N elements, the array's elements
\* in the array's order, at the array's address.  A shared reference yields no
\* mutable pinned slice.
C11_ArraySlices ==
    /\ (sreq = NoSReq /\ writes = 0) =>
         \A n \in 0 .. 32 :
           /\ Listed(<<"&", ArrTok(n), "u32">>, <<"&", "[]", "u32">>)
           /\ Listed(<<"&mut", ArrTok(n), "u32">>, <<"&", "[]", "u32">>)
           /\ Listed(<<"&mut", ArrTok(n), "u32">>, <<"&mut", "[]", "u32">>)
    /\ ( /\ sreq.node = Owner
         /\ sreq.way \in {"&", "&mut"}
         /\ sreq.tgt \in { <<"&", "[]", "u32">>, <<"&mut", "[]", "u32">> }
         /\ Len(sreq.src) = 3
         /\ IsArrayToken(sreq.src[2]) ) =>
         IF ArrLen(sreq.src[2]) \in 0 .. 32 /\ (sreq.way = "&mut" \/ Head(sreq.tgt) = "&")
         THEN /\ SServed
              /\ sreq.line \in {754, 761, 768}
              /\ spins[sreq.slot].ty = <<"Pin">> \o sreq.tgt
              /\ spins[sreq.slot].len = ArrLen(sreq.src[2])
              /\ spins[sreq.slot].addr = saddr
              /\ View(sreq.slot) = smem[saddr]
              /\ Len(View(sreq.slot)) = ArrLen(sreq.src[2])
              /\ smem = sreq.mem0
         ELSE sreq.outcome = "rejected"

C11_Witness ==
    /\ SServed
    /\ sreq.src = <<"&mut", ArrTok(32), "u32">>
    /\ sreq.tgt = <<"&mut", "[]", "u32">>
    /\ Len(View(sreq.slot)) = 32
    /\ View(sreq.slot)[1] = 32
    /\ View(sreq.slot)[32] = 1
\* C12: a mutable pin obtained by reference aliases the source's storage.  The
\* source's elements are at every moment the initial elements with the writes
\* made through pins applied in order (element assignment, reverse, sort), the
\* positions not written unchanged; every live pin, made before or after those
\* writes, views that same storage and reads the same elements.  The mutable
\* pins taken from &mut T (132), from &mut Vec<T> as the Vec or as a slice (132,
\* 198), from &mut Box<[T]> (466) and from an existing Pin<&mut T> (90, 60) can
\* be written through and view the source's storage.
C12_WritesReachSource ==
    /\ smem[saddr] = shadow
    /\ \A k \in Slots : Live(k) => (spins[k].addr = saddr /\ View(k) = shadow)
    /\ (SServed /\ sreq.way # "own") => smem = sreq.mem0
    /\ (SServed /\ sreq.way \in {"&mut", "own"} /\ sreq.slot \in Slots
          /\ sreq.line \in {132, 198, 466, 90, 60} /\ Head(sreq.tgt) = "&mut") =>
         /\ IsMutPin(spins[sreq.slot].ty)
         /\ spins[sreq.slot].addr = saddr

\* After pin[0] = 0 through one pin and pin[1] = 0 through another, both
\* released, a new pinned slice of the Vec reads [0, 0, 2].
C12_Witness ==
    /\ SServed
    /\ sreq.line = 198
    /\ sreq.src = <<"&mut", "Vec", "u32">>
    /\ writes = 2
    /\ View(sreq.slot) = << 0, 0, 2 >>
    /\ smem[saddr] = << 0, 0, 2 >>
    /\ \A k \in Slots \ {sreq.slot} : ~Live(k)
\* The last request derived a pin from a reference to the pin it was made on (the
\* impls for &Pin<..> and &mut Pin<..>).
DerivedServed ==
    /\ SServed
    /\ sreq.way \in {"&", "&mut"}
    /\ sreq.node \in Slots
    /\ sreq.line \in {74, 82, 90, 98, 106}

\* C13: a pin derived by reference from an existing pin lives inside the
\* parent's validity window.  While a derived pin is alive its parent is alive
\* (the derived pin ends first); a pin derived from an exclusive borrow is the
\* parent's only borrow, and a move or an exclusive use of a node with a live
\* borrow, or a shared use of a node with a live exclusive borrow, is refused
\* and changes nothing.  A use of a node without conflicting borrows is never
\* refused for its borrows, whether or not pins were derived from it before;
\* the derived pin and the parent refer to the same storage, and the parent is
\* unchanged by the derivation.
C13_DerivedWithinParent ==
    /\ \A k \in Slots : Live(k) =>
         /\ spins[k].parent # Owner => Live(spins[k].parent)
         /\ spins[k].excl => ChildrenIn(spins, spins[k].parent) = {k}
         /\ spins[k].parent # k
    /\ sreq.outcome # "none" =>
         (sreq.outcome = "borrow_error"
            <=> ConflictIn(sreq.pins0, sreq.node, BorrowOf(sreq.way)))
    /\ sreq.outcome = "borrow_error" => (spins = sreq.pins0 /\ smem = sreq.mem0)
    /\ DerivedServed =>
         /\ Live(sreq.node)
         /\ spins[sreq.slot].parent = sreq.node
         /\ spins[sreq.slot].excl = (sreq.way = "&mut")
         /\ spins[sreq.slot].addr = spins[sreq.node].addr
         /\ spins[sreq.slot].len = spins[sreq.node].len
         /\ spins[sreq.slot].ty = <<"Pin">> \o sreq.tgt
         /\ spins[sreq.node] = sreq.pins0[sreq.node]
         /\ smem = sreq.mem0

\* A mutable pinned slice derived a second time from &mut of a mutable pinned
\* slice, after the first derived pin ended.
C13_Witness ==
    /\ DerivedServed
    /\ sreq.line = 90
    /\ sreq.src = <<"&mut", "Pin", "&mut", "[]", "u32">>
    /\ sreq.node = "p"
    /\ spins["p"].again
    /\ Live("q")
    /\ spins["q"].ty = <<"Pin", "&mut", "[]", "u32">>
    /\ writes >= 1
\* The live shared borrows of the owned box.
SharedOfOwner == { k \in Slots : Live(k) /\ spins[k].parent = Owner /\ ~spins[k].excl }

\* C14: from one Box<T> a pin of the pointee (Pin<&T>) and a pin of the box
\* (Pin<&Box<T>>) can both be taken and be alive together.  A request for either
\* through a shared borrow is served whenever no exclusive borrow of the box is
\* alive; it leaves the value and every other pin as they were, and both pins
\* read the box's value.  While a shared pin of the box is alive no mutable pin
\* exists and a request for an exclusive borrow of the box is refused.
C14_BoxSharedPins ==
    /\ ( /\ sreq.node = Owner
         /\ sreq.way \in {"&", "as_pin"}
         /\ sreq.src \in { <<"Box", "u32">>, <<"&", "Box", "u32">> }
         /\ sreq.tgt \in { <<"&", "u32">>, <<"&", "Box", "u32">> }
         /\ ~ConflictIn(sreq.pins0, Owner, "&") ) =>
         /\ SServed
         /\ spins[sreq.slot].ty = <<"Pin">> \o sreq.tgt
         /\ spins[sreq.slot].addr = saddr
         /\ View(sreq.slot) = smem[saddr]
         /\ smem = sreq.mem0
         /\ \A j \in Slots \ {sreq.slot} : spins[j] = sreq.pins0[j]
    /\ (sty = <<"Box", "u32">> /\ SharedOfOwner # {}) =>
         /\ \A j \in Slots : Live(j) => ~IsMutPin(spins[j].ty)
         /\ \A j \in Slots : Live(j) => View(j) = smem[saddr]
    /\ (sreq.node = Owner /\ sreq.way \in {"&mut", "as_pin_mut", "own"}
          /\ sreq.outcome # "none"
          /\ \E k \in ChildrenIn(sreq.pins0, Owner) : ~sreq.pins0[k].excl) =>
         sreq.outcome = "borrow_error"

\* Pin<&Box<u32>> in p and Pin<&u32> in q, both borrowed from the box, the second
\* made by as_pin while the first was alive.
C14_Witness ==
    /\ SServed
    /\ sreq.way = "as_pin"
    /\ sreq.line = 48
    /\ sreq.slot = "q"
    /\ sty = <<"Box", "u32">>
    /\ spins["p"].ty = <<"Pin", "&", "Box", "u32">>
    /\ spins["q"].ty = <<"Pin", "&", "u32">>
    /\ SharedOfOwner = {"p", "q"}
    /\ View("p") = View("q")
VecMoveRequest ==
    /\ sreq.node = Owner
    /\ sreq.way = "own"
    /\ sreq.src = <<"Vec", "u32">>
    /\ sreq.tgt \in { <<"Vec", "u32">>, <<"Box", "[]", "u32">> }

\* C16: Vec<T> by value to Pin<Box<[T]>> consumes the Vec and yields a boxed
\* slice with the same elements in the same order, with capacity equal to its
\* length, after at most one allocation (none when the Vec had no spare
\* capacity).  Vec<T> by value to Pin<Vec<T>> moves the Vec into the pin: no
\* allocation, same buffer, same capacity, same elements.
C16_VecByValue ==
    VecMoveRequest =>
      /\ SServed
      /\ sty = <<"Pin">> \o sreq.tgt
      /\ smem[saddr] = sreq.mem0[sreq.addr0]
      /\ smem[saddr] = shadow
      /\ \A k \in Slots : ~Live(k)
      /\ IF sreq.tgt = <<"Box", "[]", "u32">>
         THEN /\ sreq.line = 177
              /\ scap = Len(smem[saddr])
              /\ sallocs - sreq.allocs0 \in {0, 1}
              /\ sreq.cap0 = Len(sreq.mem0[sreq.addr0]) =>
                   (sallocs = sreq.allocs0 /\ saddr = sreq.addr0)
              /\ saddr # sreq.addr0 => smem[sreq.addr0] = << >>
         ELSE /\ sreq.line = 170
              /\ sallocs = sreq.allocs0
              /\ saddr = sreq.addr0
              /\ scap = sreq.cap0
              /\ smem = sreq.mem0

\* A Vec with spare capacity, sorted through a pin beforehand, is moved into a
\* boxed slice that the allocator places at a new address.
C16_Witness ==
    /\ VecMoveRequest
    /\ SServed
    /\ sreq.line = 177
    /\ sreq.cap0 = Len(VecInit) + 1
    /\ scap = Len(VecInit)
    /\ sallocs = sreq.allocs0 + 1
    /\ saddr # sreq.addr0
    /\ smem[saddr] = Sorted(VecInit)
=============================================================================
